---- MODULE Spec2Model ----
(***************************************************************************)
(* jmespath-proxy: a JSON relay that reshapes the request body with a      *)
(* JMESPath expression and forwards it upstream (src/jmespath_proxy/app.py)*)
(*                                                                         *)
(* Python values are records whose first field, kind, is the type tag:     *)
(*   None  [kind |-> "null"]          str   [kind |-> "str",  val |-> s]   *)
(*   int   [kind |-> "num", val |-> n] bool [kind |-> "bool", val |-> b]   *)
(*   dict  [kind |-> "obj", val |-> f], f a function from keys to values   *)
(* An expression (a Python str) is the sequence of its lexemes; the empty  *)
(* string is the empty sequence.                                           *)
(***************************************************************************)
EXTENDS Integers, Sequences, FiniteSets, TLC

\* ------------------------------------------------------------ Python values

PyNone == [kind |-> "null"]
PyStr(s) == [kind |-> "str", val |-> s]
PyNum(n) == [kind |-> "num", val |-> n]
PyBool(b) == [kind |-> "bool", val |-> b]
PyDict(f) == [kind |-> "obj", val |-> f]
EmptyDict == [k \in {} |-> PyNone]

\* bool(v) as used by `if error:` and `if not expression`
Truthy(v) ==
  CASE v.kind = "null" -> FALSE
    [] v.kind = "str" -> v.val # ""
    [] v.kind = "num" -> v.val # 0
    [] v.kind = "bool" -> v.val
    [] v.kind = "obj" -> DOMAIN v.val # {}

\* isinstance(v, dict)
IsDict(v) == v.kind = "obj"

\* The order in which the keys of a dict are written out by str()
KeyOrder == <<"user", "name", "age", "body", "query_params", "user_id", "req_id",
              "a", "b", "x", "y", "z", "user_name", "request_id", "missing",
              "source", "nope", "length", "nofn", "invalid", "result", "detail",
              "error", "original_data", "data", "expression">>

RECURSIVE PyRepr(_), ReprItems(_, _, _)

\* str(v) for a value v: the text Python prints for it
PyStrOf(v) ==
  IF v.kind = "str" THEN v.val ELSE PyRepr(v)

PyRepr(v) ==
  CASE v.kind = "null" -> "None"
    [] v.kind = "str" -> "'" \o v.val \o "'"
    [] v.kind = "num" -> ToString(v.val)
    [] v.kind = "bool" -> IF v.val THEN "True" ELSE "False"
    [] v.kind = "obj" -> "{" \o ReprItems(v.val, 1, TRUE) \o "}"

ReprItems(f, i, first) ==
  IF i > Len(KeyOrder) THEN ""
  ELSE IF KeyOrder[i] \in DOMAIN f
       THEN (IF first THEN "" ELSE ", ") \o "'" \o KeyOrder[i] \o "': "
            \o PyRepr(f[KeyOrder[i]]) \o ReprItems(f, i + 1, FALSE)
       ELSE ReprItems(f, i + 1, first)

\* F(x), with x evaluated once before F is applied to it
Eager(x, F(_)) == CHOOSE y \in {F(v) : v \in {x}} : TRUE

\* ------------------------------------------------- the JMESPath library

EOF == "<eof>"
Punct == {".", "{", "}", ":", ",", "[", "(", ")", "@", EOF}
IsIdent(t) == t \notin Punct

Tok(toks, i) == IF i <= Len(toks) THEN toks[i] ELSE EOF

\* binding power of a token in led position
BindingPower(t) ==
  CASE t = "." -> 40
    [] t = "[" -> 55
    [] t = "(" -> 60
    [] OTHER -> 0

Node(type, value, children) == [type |-> type, value |-> value, children |-> children]
NoNode == Node("none", "", <<>>)
ParseOk(node, pos) == [ok |-> TRUE, node |-> node, pos |-> pos, msg |-> ""]
ParseFail(msg) == [ok |-> FALSE, node |-> NoNode, pos |-> 0, msg |-> msg]
Unexpected(t) ==
  IF t = EOF THEN ParseFail("Incomplete expression")
  ELSE ParseFail("Unexpected token: " \o t)

RECURSIVE Expression(_, _, _), LedLoop(_, _, _, _), Nud(_, _), Led(_, _, _),
          MultiSelectHash(_, _, _), FunctionArgs(_, _, _, _), DotRhs(_, _)

\* Parser._expression(binding_power): a Pratt parser
Expression(toks, i, rbp) ==
  Eager(Nud(toks, i),
        LAMBDA left : IF left.ok THEN LedLoop(toks, left.node, left.pos, rbp) ELSE left)

LedLoop(toks, left, i, rbp) ==
  IF rbp < BindingPower(Tok(toks, i))
  THEN Eager(Led(toks, left, i),
             LAMBDA r : IF r.ok THEN LedLoop(toks, r.node, r.pos, rbp) ELSE r)
  ELSE ParseOk(left, i)

\* the token at i in prefix position
Nud(toks, i) ==
  LET t == Tok(toks, i)
  IN  CASE IsIdent(t) -> ParseOk(Node("field", t, <<>>), i + 1)
        [] t = "@" -> ParseOk(Node("current", "", <<>>), i + 1)
        [] t = "{" -> MultiSelectHash(toks, i + 1, <<>>)
        [] t = "(" ->
             Eager(Expression(toks, i + 1, 0),
                   LAMBDA e : IF ~e.ok THEN e
                              ELSE IF Tok(toks, e.pos) = ")"
                                   THEN ParseOk(e.node, e.pos + 1)
                              ELSE Unexpected(Tok(toks, e.pos)))
        [] t = "[" ->
             \* a multi-select list or an index: both need a "]" to close,
             \* which no expression of the model contains
             Unexpected(EOF)
        [] OTHER -> Unexpected(t)

\* the token at i in infix position, after the expression left
Led(toks, left, i) ==
  LET t == Tok(toks, i)
  IN  CASE t = "." ->
             Eager(DotRhs(toks, i + 1),
                   LAMBDA right :
                     IF ~right.ok THEN right
                     ELSE IF left.type = "subexpression"
                          THEN ParseOk(Node("subexpression", "",
                                            Append(left.children, right.node)), right.pos)
                          ELSE ParseOk(Node("subexpression", "", <<left, right.node>>),
                                       right.pos))
        [] t = "(" ->
             IF left.type # "field"
             THEN ParseFail("Invalid function name")
             ELSE FunctionArgs(toks, i + 1, left.value, <<>>)
        [] OTHER -> Unexpected(EOF)

\* Parser._parse_dot_rhs
DotRhs(toks, i) ==
  LET t == Tok(toks, i)
  IN  CASE IsIdent(t) -> Expression(toks, i, 40)
        [] t = "{" -> MultiSelectHash(toks, i + 1, <<>>)
        [] OTHER -> Unexpected(t)

\* Parser._parse_multi_select_hash: key ":" expression, then "," or "}"
MultiSelectHash(toks, i, pairs) ==
  IF ~IsIdent(Tok(toks, i)) THEN Unexpected(Tok(toks, i))
  ELSE IF Tok(toks, i + 1) # ":" THEN Unexpected(Tok(toks, i + 1))
  ELSE Eager(Expression(toks, i + 2, 0),
             LAMBDA e :
               IF ~e.ok THEN e
               ELSE Eager(Append(pairs, Node("key_val_pair", Tok(toks, i), <<e.node>>)),
                          LAMBDA more :
                            IF Tok(toks, e.pos) = ","
                            THEN MultiSelectHash(toks, e.pos + 1, more)
                            ELSE IF Tok(toks, e.pos) = "}"
                            THEN ParseOk(Node("multi_select_dict", "", more), e.pos + 1)
                            ELSE MultiSelectHash(toks, e.pos, more)))

\* Parser._token_led_lparen: the arguments of a function call
FunctionArgs(toks, i, name, args) ==
  IF Tok(toks, i) = ")"
  THEN ParseOk(Node("function_expression", name, args), i + 1)
  ELSE Eager(Expression(toks, i, 0),
             LAMBDA e :
               IF ~e.ok THEN e
               ELSE Eager(Append(args, e.node),
                          LAMBDA more :
                            FunctionArgs(toks,
                                         IF Tok(toks, e.pos) = "," THEN e.pos + 1 ELSE e.pos,
                                         name, more)))

\* Parser.parse: the whole text must be one expression
Parse(toks) ==
  Eager(Expression(toks, 1, 0),
        LAMBDA e : IF ~e.ok THEN e
                   ELSE IF Tok(toks, e.pos) # EOF THEN Unexpected(Tok(toks, e.pos))
                   ELSE e)

\* An evaluation ends in a value or in an exception; the exception travels
\* as a record of kind "raise".
Raise(exc, msg) == [kind |-> "raise", val |-> msg, exc |-> exc]
IsRaise(v) == v.kind = "raise"

\* functions.Functions: the built-in functions the model knows
KnownFunctions == {"length"}

CallFunction(name, args) ==
  IF name \notin KnownFunctions
  THEN Raise("UnknownFunctionError", "Unknown function: " \o name \o "()")
  ELSE IF Len(args) # 1
  THEN Raise("ArityError", "Expected 1 argument for function length()")
  ELSE IF args[1].kind = "str" THEN PyNum(Len(args[1].val))
  ELSE IF args[1].kind = "obj" THEN PyNum(Cardinality(DOMAIN args[1].val))
  ELSE Raise("JMESPathTypeError", "In function length(), invalid type for value")

RECURSIVE Visit(_, _), VisitChain(_, _, _), VisitPairs(_, _, _, _), VisitArgs(_, _, _, _)

\* TreeInterpreter.visit
Visit(node, value) ==
  CASE node.type = "field" ->
         IF value.kind = "obj" /\ node.value \in DOMAIN value.val
         THEN value.val[node.value] ELSE PyNone
    [] node.type = "current" -> value
    [] node.type = "subexpression" -> VisitChain(node.children, 1, value)
    [] node.type = "key_val_pair" -> Visit(node.children[1], value)
    [] node.type = "multi_select_dict" ->
         IF value.kind = "null" THEN PyNone
         ELSE VisitPairs(node.children, 1, value, EmptyDict)
    [] node.type = "function_expression" -> VisitArgs(node, 1, value, <<>>)

VisitChain(children, i, value) ==
  IF i > Len(children) \/ IsRaise(value) THEN value
  ELSE Eager(Visit(children[i], value), LAMBDA v : VisitChain(children, i + 1, v))

VisitPairs(children, i, value, acc) ==
  IF i > Len(children) THEN PyDict(acc)
  ELSE Eager(Visit(children[i], value),
             LAMBDA v :
               IF IsRaise(v) THEN v
               ELSE Eager([x \in DOMAIN acc \cup {children[i].value} |->
                             IF x = children[i].value THEN v ELSE acc[x]],
                          LAMBDA more : VisitPairs(children, i + 1, value, more)))

VisitArgs(node, i, value, args) ==
  IF i > Len(node.children) THEN CallFunction(node.value, args)
  ELSE Eager(Visit(node.children[i], value),
             LAMBDA v :
               IF IsRaise(v) THEN v
               ELSE Eager(Append(args, v),
                          LAMBDA more : VisitArgs(node, i + 1, value, more)))

\* jmespath.search(expression, data): a value, or a raise
Search(expression, data) ==
  IF expression = <<>>
  THEN Raise("EmptyExpressionError", "Invalid JMESPath expression: cannot be empty.")
  ELSE Eager(Parse(expression),
             LAMBDA p : IF ~p.ok THEN Raise("ParseError", p.msg) ELSE Visit(p.node, data))

\* jmespath.compile(expression).parsed: the syntax tree, or a raise
Compile(expression) ==
  IF expression = <<>>
  THEN Raise("EmptyExpressionError", "Invalid JMESPath expression: cannot be empty.")
  ELSE Eager(Parse(expression),
             LAMBDA p : IF ~p.ok THEN Raise("ParseError", p.msg)
                        ELSE [kind |-> "parsed", val |-> p.node])

\* isinstance(e, ParseError), for an exception class name
IsParseError(exc) == exc \in {"ParseError", "LexerError", "IncompleteExpressionError"}

\* ------------------------------------------------- the functions of app.py

\* context_data = {"body": body_data, "query_params": query_params}
ContextData(body_data, query_params) ==
  PyDict([body |-> body_data, query_params |-> query_params])

\* the value of `(result, error)` at a return of apply_jmespath_expression,
\* and whether jmespath.search was called on the way
Applied(result, error, searched) ==
  [exc |-> "", result |-> result, error |-> error, searched |-> searched]

\* variants of apply_jmespath_expression, each with one plausible slip

\* without the final `except Exception`: an execution error propagates
apply_without_catch_all(expression, body_data, query_params) ==
  IF expression = <<>> THEN Applied(body_data, PyNone, FALSE)
  ELSE Eager(Search(expression, ContextData(body_data, query_params)),
             LAMBDA r :
               IF ~IsRaise(r) THEN Applied(r, PyNone, TRUE)
               ELSE IF IsParseError(r.exc)
               THEN Applied(body_data, PyStr("JMESPath parse error: " \o r.val), TRUE)
               ELSE [exc |-> r.exc, result |-> PyNone, error |-> PyNone,
                     searched |-> TRUE])

\* without the `if not expression` shortcut
apply_without_empty_check(expression, body_data, query_params) ==
  Eager(Search(expression, ContextData(body_data, query_params)),
        LAMBDA r :
          IF ~IsRaise(r) THEN Applied(r, PyNone, TRUE)
          ELSE IF IsParseError(r.exc)
          THEN Applied(body_data, PyStr("JMESPath parse error: " \o r.val), TRUE)
          ELSE Applied(body_data, PyStr("JMESPath execution error: " \o r.val), TRUE))

\* evaluating against the body alone instead of {body, query_params}
apply_on_body_only(expression, body_data, query_params) ==
  IF expression = <<>> THEN Applied(body_data, PyNone, FALSE)
  ELSE Eager(Search(expression, body_data),
             LAMBDA r :
               IF ~IsRaise(r) THEN Applied(r, PyNone, TRUE)
               ELSE IF IsParseError(r.exc)
               THEN Applied(body_data, PyStr("JMESPath parse error: " \o r.val), TRUE)
               ELSE Applied(body_data,
                            PyStr("JMESPath execution error: " \o r.val), TRUE))

\* apply_jmespath_expression(expression, body_data, query_params)
apply_jmespath_expression(expression, body_data, query_params) ==
  IF expression = <<>> THEN Applied(body_data, PyNone, FALSE)
  ELSE Eager(Search(expression, ContextData(body_data, query_params)),
             LAMBDA r :
               IF ~IsRaise(r) THEN Applied(r, PyNone, TRUE)
               ELSE IF IsParseError(r.exc)
               THEN Applied(body_data, PyStr("JMESPath parse error: " \o r.val), TRUE)
               ELSE Applied(body_data,
                            PyStr("JMESPath execution error: " \o r.val), TRUE))

RECURSIVE CollectNames(_, _)
\* the loop of extract_labelnames over parsed["children"]
CollectNames(children, i) ==
  IF i > Len(children) THEN <<>>
  ELSE IF children[i].type = "key_val_pair"
       THEN <<children[i].value>> \o CollectNames(children, i + 1)
       ELSE CollectNames(children, i + 1)

RECURSIVE AllChildValues(_, _)
AllChildValues(children, i) ==
  IF i > Len(children) THEN <<>>
  ELSE <<children[i].value>> \o AllChildValues(children, i + 1)

\* a variant of extract_labelnames that checks neither the type of the root
\* nor the type of its children
extract_labelnames_any_child(expression) ==
  IF expression = <<>> THEN [exc |-> "", names |-> <<>>]
  ELSE Eager(Compile(expression),
             LAMBDA c :
               IF IsRaise(c) THEN [exc |-> "", names |-> <<>>]
               ELSE [exc |-> "", names |-> AllChildValues(c.val.children, 1)])

\* extract_labelnames(expression): the list of label names
extract_labelnames(expression) ==
  IF expression = <<>> THEN [exc |-> "", names |-> <<>>]
  ELSE Eager(Compile(expression),
             LAMBDA c :
               IF IsRaise(c) THEN [exc |-> "", names |-> <<>>]
               ELSE IF c.val.type # "multi_select_dict" THEN [exc |-> "", names |-> <<>>]
               ELSE [exc |-> "", names |-> CollectNames(c.val.children, 1)])

\* a variant of extract_metric_labels without the `if v is not None` filter
extract_metric_labels_keep_null(expression, body_data, query_params) ==
  IF expression = <<>> THEN [exc |-> "", labels |-> EmptyDict]
  ELSE Eager(Search(expression, ContextData(body_data, query_params)),
             LAMBDA result :
               IF IsRaise(result) THEN [exc |-> "", labels |-> EmptyDict]
               ELSE IF ~IsDict(result) THEN [exc |-> "", labels |-> EmptyDict]
               ELSE [exc |-> "",
                     labels |-> [k \in DOMAIN result.val |->
                                   PyStr(PyStrOf(result.val[k]))]])

\* a variant of extract_metric_labels without its try/except: a failed
\* evaluation propagates
extract_metric_labels_uncaught(expression, body_data, query_params) ==
  IF expression = <<>> THEN [exc |-> "", labels |-> EmptyDict]
  ELSE Eager(Search(expression, ContextData(body_data, query_params)),
             LAMBDA result :
               IF IsRaise(result) THEN [exc |-> result.exc, labels |-> EmptyDict]
               ELSE IF ~IsDict(result) THEN [exc |-> "", labels |-> EmptyDict]
               ELSE [exc |-> "",
                     labels |-> [k \in {x \in DOMAIN result.val : result.val[x] # PyNone}
                                  |-> PyStr(PyStrOf(result.val[k]))]])

\* extract_metric_labels(expression, body_data, query_params): a mapping from
\* label name to label value (a function from names to strings)
extract_metric_labels(expression, body_data, query_params) ==
  IF expression = <<>> THEN [exc |-> "", labels |-> EmptyDict]
  ELSE Eager(Search(expression, ContextData(body_data, query_params)),
             LAMBDA result :
               IF IsRaise(result) THEN [exc |-> "", labels |-> EmptyDict]
               ELSE IF ~IsDict(result) THEN [exc |-> "", labels |-> EmptyDict]
               ELSE [exc |-> "",
                     labels |-> [k \in {x \in DOMAIN result.val : result.val[x] # PyNone}
                                  |-> PyStr(PyStrOf(result.val[k]))]])

\* ------------------------------------------------------------ the process

VARIABLES
  JMESPATH_EXPRESSION,               \* module globals read from the environment
  METRICS_ANNOTATION_EXPRESSION,
  FORWARD_URL,
  FORWARD_BASIC_AUTH_USERNAME,
  FORWARD_BASIC_AUTH_PASSWORD,
  metric_label_names,                \* extract_labelnames(...) at import
  metrics_forwarded_total,           \* Counter: label values -> count
  metrics_forward_errors_total,      \* Counter: error_type -> count
  metrics_forward_duration_seconds,  \* Histogram: number of observations
  requests,                          \* the POST / handlers, by request
  upstream_posts,                    \* the POSTs issued with the httpx client
  phase,                             \* where the process is in its life
  httpx_client,                      \* app.state.httpx_client
  expression, body_data, query_params, ret   \* a direct call of one function

vars == <<JMESPATH_EXPRESSION, METRICS_ANNOTATION_EXPRESSION, FORWARD_URL,
          FORWARD_BASIC_AUTH_USERNAME, FORWARD_BASIC_AUTH_PASSWORD,
          metric_label_names, metrics_forwarded_total, metrics_forward_errors_total,
          metrics_forward_duration_seconds, requests, upstream_posts,
          phase, httpx_client,
          expression, body_data, query_params, ret>>

\* bounds of the model
MaxRequests == 2
MaxExprLen == 3

\* ------------------------------------------------------------ inputs

ExprBodyUserName == <<"body", ".", "user", ".", "name">>
ExprQueryUserId == <<"query_params", ".", "user_id">>
ExprComposite == <<"{", "user_name", ":", "body", ".", "user", ".", "name", ",",
                   "request_id", ":", "query_params", ".", "req_id", "}">>
ExprInvalid == <<"invalid", "[">>
ExprXYZ == <<"x", ".", "y", ".", "z">>
ExprAB == <<"{", "a", ":", "x", ",", "b", ":", "y", "}">>
ExprUnknownFn == <<"nofn", "(", "body", ")">>
ExprLengthAge == <<"length", "(", "body", ".", "user", ".", "age", ")">>
ExprLabels == <<"{", "name", ":", "body", ".", "user", ".", "name", ",",
                "age", ":", "body", ".", "user", ".", "age", ",",
                "source", ":", "query_params", ".", "source", "}">>
ExprIdentity == <<"body">>
ExprNested == <<"{", "a", ":", "{", "b", ":", "x", "}", ",", "z", ":", "y", "}">>
ExprDictThenField == <<"{", "a", ":", "x", "}", ".", "a">>
ExprNoComma == <<"{", "a", ":", "x", "b", ":", "y", "}">>
ExprLengthName == <<"length", "(", "body", ".", "user", ".", "name", ")">>
ExprLabelLength == <<"{", "name", ":", "length", "(", "body", ".", "user", ".", "name", ")", "}">>

NamedExprs == {ExprBodyUserName, ExprQueryUserId, ExprComposite, ExprInvalid, ExprXYZ,
               ExprAB, ExprUnknownFn, ExprLengthAge, ExprLabels, ExprIdentity,
               ExprNested, ExprDictThenField, ExprNoComma, ExprLengthName,
               ExprLabelLength}

Alphabet == {"body", "query_params", "user", "length", ".", "{", "}", ":", "(", ")", "["}

\* every text of at most MaxExprLen lexemes, and the named expressions
Exprs == UNION {[1..n -> Alphabet] : n \in 0..MaxExprLen} \cup NamedExprs

BodyJohn == PyDict([user |-> PyDict([name |-> PyStr("John"), age |-> PyNum(30)])])
BodyShadow == PyDict([body |-> PyDict([user |-> PyStr("inner")]),
                      query_params |-> PyDict([user_id |-> PyStr("999")]),
                      user |-> PyDict([name |-> PyStr("Ann")])])
BodyEmpty == PyDict(EmptyDict)
Bodies == {BodyJohn, BodyShadow, BodyEmpty}

QueryNone == PyDict(EmptyDict)
QueryIds == PyDict([user_id |-> PyStr("12345"), req_id |-> PyStr("abcde")])
QueryShadow == PyDict([user |-> PyStr("fromquery"), source |-> PyStr("test-source")])
Queries == {QueryNone, QueryIds, QueryShadow}

\* ------------------------------------------------------------ direct calls

NotCalled == [fn |-> "none"]

\* app.state.httpx_client: how many AsyncClient objects the lifespan has
\* constructed (0: the attribute is not set) and whether the one stored has
\* been closed
NoClient == [created |-> 0, closed |-> FALSE]

InitConfigIdle ==
  /\ JMESPATH_EXPRESSION = <<>>
  /\ METRICS_ANNOTATION_EXPRESSION = <<>>
  /\ FORWARD_URL = ""
  /\ FORWARD_BASIC_AUTH_USERNAME = ""
  /\ FORWARD_BASIC_AUTH_PASSWORD = ""
  /\ phase = "imported"
  /\ httpx_client = NoClient
  /\ metric_label_names = <<>>
  /\ metrics_forwarded_total = [k \in {} |-> 0]
  /\ metrics_forward_errors_total = [t \in {"config_error", "http_error", "unexpected_error"} |-> 0]
  /\ metrics_forward_duration_seconds = 0
  /\ requests = [r \in {} |-> 0]
  /\ upstream_posts = <<>>

InitPure ==
  /\ InitConfigIdle
  /\ expression \in Exprs
  /\ body_data \in Bodies
  /\ query_params \in Queries
  /\ ret = NotCalled

serverVars == <<JMESPATH_EXPRESSION, METRICS_ANNOTATION_EXPRESSION, FORWARD_URL,
                FORWARD_BASIC_AUTH_USERNAME, FORWARD_BASIC_AUTH_PASSWORD,
                metric_label_names, metrics_forwarded_total,
                metrics_forward_errors_total, metrics_forward_duration_seconds,
                requests, upstream_posts, phase, httpx_client>>
callVars == <<expression, body_data, query_params, ret>>

CallApply ==
  /\ ret = NotCalled
  /\ ret' = [fn |-> "apply_jmespath_expression",
             out |-> apply_jmespath_expression(expression, body_data, query_params)]
  /\ UNCHANGED <<serverVars, expression, body_data, query_params>>

CallExtractLabelnames ==
  /\ ret = NotCalled
  /\ ret' = [fn |-> "extract_labelnames", out |-> extract_labelnames(expression)]
  /\ UNCHANGED <<serverVars, expression, body_data, query_params>>

CallExtractMetricLabels ==
  /\ ret = NotCalled
  /\ ret' = [fn |-> "extract_metric_labels",
             out |-> extract_metric_labels(expression, body_data, query_params)]
  /\ UNCHANGED <<serverVars, expression, body_data, query_params>>

NextPure == CallApply \/ CallExtractLabelnames \/ CallExtractMetricLabels

SpecPure == InitPure /\ [][NextPure]_vars

\* ------------------------------------------------------------ POST /

\* What `await client.post(...)` ends in: a response, or a raise.
UpstreamResponse(status, content_type, content) ==
  [raises |-> "", msg |-> "", status |-> status,
   content_type |-> content_type, content |-> content]
UpstreamRaise(exc, msg) ==
  [raises |-> exc, msg |-> msg, status |-> 0, content_type |-> "", content |-> ""]
NoUpstream == UpstreamRaise("none", "")

UpstreamOutcomes ==
  { UpstreamResponse(200, "application/json", "{\"result\": \"success\"}"),
    UpstreamResponse(302, "text/html", "moved"),
    UpstreamResponse(404, "application/json", "{\"detail\": \"not found\"}"),
    UpstreamRaise("ConnectError", "Connection error"),
    UpstreamRaise("RuntimeError", "Cannot send a request, as the client has been closed.") }

\* httpx.Response.is_success
IsSuccess(status) == 200 <= status /\ status <= 299

\* isinstance(e, httpx.HTTPError), for an exception class name
IsHTTPError(exc) ==
  exc \in {"HTTPStatusError", "ConnectError", "ConnectTimeout", "ReadTimeout", "ReadError"}

\* what the try body (client.post, then response.raise_for_status) raises
TryBodyRaises(up) ==
  IF up.raises # "" THEN [exc |-> up.raises, msg |-> up.msg]
  ELSE IF ~IsSuccess(up.status)
       THEN [exc |-> "HTTPStatusError", msg |-> "Status error " \o ToString(up.status)]
       ELSE [exc |-> "", msg |-> ""]

\* what the client of the proxy receives
NoResponse == [via |-> "none", status |-> 0, body |-> PyNone, content_type |-> ""]
\* a dict returned by the handler: serialised as JSON with the route's status 200
JsonResponse(d) == [via |-> "json", status |-> 200, body |-> d, content_type |-> "application/json"]
\* a litestar Response returned by the handler
RelayResponse(up) ==
  [via |-> "response", status |-> up.status, body |-> PyStr(up.content),
   content_type |-> up.content_type]
\* an exception leaving the handler: the framework answers 500
ServerError(exc) ==
  [via |-> "exception", status |-> 500, body |-> PyStr(exc), content_type |-> "application/json"]

ErrorBody(message, original_data, qp) ==
  PyDict([error |-> PyStr(message), original_data |-> original_data, query_params |-> qp])

\* forward_json from its entry to `await client.post(...)`, or to the return
\* that comes before it
Returned(result, response, error_type) ==
  [pc |-> "done", result |-> result, metric_labels |-> EmptyDict,
   response |-> response, error_type |-> error_type, post |-> <<>>]

\* a variant of forward_json_to_await that checks FORWARD_URL before the
\* transform error
forward_json_to_await_url_checked_first(data, qp, transform_expr, metrics_expr, forward_url) ==
  Eager(apply_jmespath_expression(transform_expr, data, qp),
        LAMBDA a :
          IF a.exc # "" THEN Returned(PyNone, ServerError(a.exc), "")
          ELSE Eager(extract_metric_labels(metrics_expr, data, qp),
                     LAMBDA m :
    IF m.exc # "" THEN Returned(a.result, ServerError(m.exc), "")
    ELSE IF forward_url = ""
    THEN Returned(a.result,
                  JsonResponse(ErrorBody(
                    "Configuration error: FORWARD_URL environment variable is not set",
                    a.result, qp)), "config_error")
    ELSE IF Truthy(a.error)
    THEN Returned(a.result,
                  JsonResponse(ErrorBody("Error in global expression: " \o a.error.val,
                                         data, qp)), "")
    ELSE [pc |-> "awaiting", result |-> a.result, metric_labels |-> m.labels,
          response |-> NoResponse, error_type |-> "",
          post |-> <<[url |-> forward_url, json |-> a.result]>>]))

\* a variant of forward_json_to_await without the `if not FORWARD_URL` return
forward_json_to_await_no_url_check(data, qp, transform_expr, metrics_expr, forward_url) ==
  Eager(apply_jmespath_expression(transform_expr, data, qp),
        LAMBDA a :
          IF a.exc # "" THEN Returned(PyNone, ServerError(a.exc), "")
          ELSE Eager(extract_metric_labels(metrics_expr, data, qp),
                     LAMBDA m :
    IF m.exc # "" THEN Returned(a.result, ServerError(m.exc), "")
    ELSE IF Truthy(a.error)
    THEN Returned(a.result,
                  JsonResponse(ErrorBody("Error in global expression: " \o a.error.val,
                                         data, qp)), "")
    ELSE [pc |-> "awaiting", result |-> a.result, metric_labels |-> m.labels,
          response |-> NoResponse, error_type |-> "",
          post |-> <<[url |-> forward_url, json |-> a.result]>>]))

\* a variant of forward_json_to_await that extracts the labels from the
\* transformed payload instead of the request body
forward_json_to_await_labels_from_result(data, qp, transform_expr, metrics_expr, forward_url) ==
  Eager(apply_jmespath_expression(transform_expr, data, qp),
        LAMBDA a :
          IF a.exc # "" THEN Returned(PyNone, ServerError(a.exc), "")
          ELSE Eager(extract_metric_labels(metrics_expr, a.result, qp),
                     LAMBDA m :
    IF m.exc # "" THEN Returned(a.result, ServerError(m.exc), "")
    ELSE IF Truthy(a.error)
    THEN Returned(a.result,
                  JsonResponse(ErrorBody("Error in global expression: " \o a.error.val,
                                         data, qp)), "")
    ELSE IF forward_url = ""
    THEN Returned(a.result,
                  JsonResponse(ErrorBody(
                    "Configuration error: FORWARD_URL environment variable is not set",
                    a.result, qp)), "config_error")
    ELSE [pc |-> "awaiting", result |-> a.result, metric_labels |-> m.labels,
          response |-> NoResponse, error_type |-> "",
          post |-> <<[url |-> forward_url, json |-> a.result]>>]))

\* forward_json from its entry to the await, as the code has it
forward_json_to_await(data, qp, transform_expr, metrics_expr, forward_url) ==
  Eager(apply_jmespath_expression(transform_expr, data, qp),
        LAMBDA a :
          IF a.exc # "" THEN Returned(PyNone, ServerError(a.exc), "")
          ELSE Eager(extract_metric_labels(metrics_expr, data, qp),
                     LAMBDA m :
    IF m.exc # "" THEN Returned(a.result, ServerError(m.exc), "")
    ELSE IF Truthy(a.error)
    THEN Returned(a.result,
                  JsonResponse(ErrorBody("Error in global expression: " \o a.error.val,
                                         data, qp)), "")
    ELSE IF forward_url = ""
    THEN Returned(a.result,
                  JsonResponse(ErrorBody(
                    "Configuration error: FORWARD_URL environment variable is not set",
                    a.result, qp)), "config_error")
    ELSE [pc |-> "awaiting", result |-> a.result, metric_labels |-> m.labels,
          response |-> NoResponse, error_type |-> "",
          post |-> <<[url |-> forward_url, json |-> a.result]>>]))

\* metric_labels.get(name, "") for each name of metric_label_names
LabelValues(label_names, metric_labels) ==
  [i \in 1..Len(label_names) |->
     IF label_names[i] \in DOMAIN metric_labels
     THEN metric_labels[label_names[i]].val ELSE ""]

\* forward_json from the completion of `await client.post(...)` to its end.
\* inc_exc is what the increment of metrics_forwarded_total raises and
\* resp_exc what the construction of the relayed Response raises ("" when
\* the call returns).
AfterTryBody(raised, result, metric_labels, qp, label_names, up, inc_exc, resp_exc) ==
  Eager(raised, LAMBDA e :
      IF e.exc # "" /\ IsHTTPError(e.exc)
      THEN [response |-> JsonResponse(ErrorBody("Failed to forward request: " \o e.msg,
                                                result, qp)),
            error_type |-> "http_error", forwarded |-> <<>>, observed |-> 1]
      ELSE IF e.exc # ""
      THEN [response |-> JsonResponse(ErrorBody(
                           "Unexpected error during forwarding: " \o e.msg, result, qp)),
            error_type |-> "unexpected_error", forwarded |-> <<>>, observed |-> 1]
      ELSE IF inc_exc # ""
      THEN [response |-> ServerError(inc_exc),
            error_type |-> "", forwarded |-> <<>>, observed |-> 1]
      ELSE [response |-> IF resp_exc # "" THEN ServerError(resp_exc) ELSE RelayResponse(up),
            error_type |-> "",
            forwarded |-> <<IF label_names # <<>>
                            THEN LabelValues(label_names, metric_labels) ELSE <<>>>>,
            observed |-> 1])

\* a variant of forward_json_from_await that times the call only when it
\* succeeds
forward_json_from_await_unobserved_errors(result, metric_labels, qp, label_names, up, inc_exc, resp_exc) ==
  Eager(AfterTryBody(TryBodyRaises(up),
                     result, metric_labels, qp, label_names, up, inc_exc, resp_exc),
        LAMBDA s : [s EXCEPT !.observed = IF s.error_type = "" THEN 1 ELSE 0])

\* a variant of forward_json_from_await without response.raise_for_status()
forward_json_from_await_status_unchecked(result, metric_labels, qp, label_names, up, inc_exc, resp_exc) ==
  AfterTryBody([exc |-> up.raises, msg |-> up.msg],
               result, metric_labels, qp, label_names, up, inc_exc, resp_exc)

forward_json_from_await(result, metric_labels, qp, label_names, up, inc_exc, resp_exc) ==
  AfterTryBody(TryBodyRaises(up),
               result, metric_labels, qp, label_names, up, inc_exc, resp_exc)

\* a variant of Inc that writes back a count read before the other handlers ran
IncFromStaleRead(counter, key) ==
  [k \in DOMAIN counter \cup {key} |->
     IF k = key THEN 1 ELSE counter[k]]

\* Counter.inc() on the child with these label values
Inc(counter, key) ==
  [k \in DOMAIN counter \cup {key} |->
     (IF k \in DOMAIN counter THEN counter[k] ELSE 0) + (IF k = key THEN 1 ELSE 0)]

IdleRequest ==
  [pc |-> "idle", route |-> "", expression |-> PyNone, data |-> PyNone, query_params |-> PyNone, result |-> PyNone,
   metric_labels |-> EmptyDict, upstream |-> NoUpstream, inc_exc |-> "",
   resp_exc |-> "", response |-> NoResponse]

TransformExprs == {<<>>, ExprBodyUserName, ExprInvalid, ExprLengthName}
MetricExprs == {<<>>, ExprLabels, ExprInvalid, ExprBodyUserName, ExprUnknownFn,
                ExprLabelLength}
ForwardUrls == {"", "http://mock.example.com"}
RequestBodies == {BodyJohn, BodyEmpty}
RequestQueries == {QueryNone, QueryShadow}

\* httpx.USE_CLIENT_DEFAULT and httpx.BasicAuth(username, password)
USE_CLIENT_DEFAULT == [scheme |-> "client_default", username |-> "", password |-> ""]
BasicAuth(username, password) ==
  [scheme |-> "basic", username |-> username, password |-> password]

\* a variant of ForwardAuth that builds BasicAuth when either credential is set
ForwardAuthIfEither(username, password) ==
  IF username # "" \/ password # "" THEN BasicAuth(username, password)
  ELSE USE_CLIENT_DEFAULT

\* the auth argument forward_json passes to client.post
ForwardAuth(username, password) ==
  IF username # "" /\ password # "" THEN BasicAuth(username, password)
  ELSE USE_CLIENT_DEFAULT

\* the client the lifespan stores when it starts
OpenClient == [created |-> 1, closed |-> FALSE]

\* the process once it has been imported and its lifespan has started, with
\* the configuration drawn from the given sets and no request received yet
InitServing(transforms, metrics, urls, usernames, passwords) ==
  /\ JMESPATH_EXPRESSION \in transforms
  /\ METRICS_ANNOTATION_EXPRESSION \in metrics
  /\ FORWARD_URL \in urls
  /\ FORWARD_BASIC_AUTH_USERNAME \in usernames
  /\ FORWARD_BASIC_AUTH_PASSWORD \in passwords
  /\ metric_label_names = extract_labelnames(METRICS_ANNOTATION_EXPRESSION).names
  /\ metrics_forwarded_total = [k \in {} |-> 0]
  /\ metrics_forward_errors_total =
       [t \in {"config_error", "http_error", "unexpected_error"} |-> 0]
  /\ metrics_forward_duration_seconds = 0
  /\ requests = [r \in 1..MaxRequests |-> IdleRequest]
  /\ upstream_posts = <<>>
  /\ phase = "serving"
  /\ httpx_client = OpenClient
  /\ expression = <<>>
  /\ body_data = PyNone
  /\ query_params = PyNone
  /\ ret = NotCalled

Init == InitServing(TransformExprs, MetricExprs, ForwardUrls, {""}, {""})

configVars == <<JMESPATH_EXPRESSION, METRICS_ANNOTATION_EXPRESSION, FORWARD_URL,
                FORWARD_BASIC_AUTH_USERNAME, FORWARD_BASIC_AUTH_PASSWORD,
                metric_label_names>>
lifeVars == <<phase, httpx_client>>

\* a POST / arrives: the handler runs to its first await or to its return
ForwardJsonCall(r, data, qp) ==
  /\ phase = "serving"
  /\ requests[r].pc = "idle"
  /\ \A q \in 1..(r - 1) : requests[q].pc # "idle"
  /\ \E s \in {forward_json_to_await(data, qp, JMESPATH_EXPRESSION,
                                      METRICS_ANNOTATION_EXPRESSION, FORWARD_URL)} :
         /\ requests' = [requests EXCEPT ![r] =
                           [IdleRequest EXCEPT !.pc = s.pc, !.route = "forward", !.data = data,
                                               !.query_params = qp, !.result = s.result,
                                               !.metric_labels = s.metric_labels,
                                               !.response = s.response]]
         /\ metrics_forward_errors_total' =
              IF s.error_type = "" THEN metrics_forward_errors_total
              ELSE [metrics_forward_errors_total EXCEPT ![s.error_type] = @ + 1]
         /\ upstream_posts' =
              IF s.post = <<>> THEN upstream_posts
              ELSE Append(upstream_posts,
                          [req |-> r, url |-> s.post[1].url, json |-> s.post[1].json,
                           auth |-> ForwardAuth(FORWARD_BASIC_AUTH_USERNAME,
                                                FORWARD_BASIC_AUTH_PASSWORD),
                           client |-> httpx_client])
  /\ UNCHANGED <<configVars, lifeVars, metrics_forwarded_total,
                 metrics_forward_duration_seconds, callVars>>

\* the awaited POST completes: the handler runs to its end
ForwardJsonResume(r, up, inc_exc, resp_exc) ==
  /\ requests[r].pc = "awaiting"
  /\ \E q \in {requests[r]} :
     \E s \in {forward_json_from_await(q.result, q.metric_labels, q.query_params,
                                       metric_label_names, up, inc_exc, resp_exc)} :
         /\ requests' = [requests EXCEPT ![r] =
                           [q EXCEPT !.pc = "done", !.upstream = up, !.inc_exc = inc_exc,
                                     !.resp_exc = resp_exc, !.response = s.response]]
         /\ metrics_forward_errors_total' =
              IF s.error_type = "" THEN metrics_forward_errors_total
              ELSE [metrics_forward_errors_total EXCEPT ![s.error_type] = @ + 1]
         /\ metrics_forwarded_total' =
              IF s.forwarded = <<>> THEN metrics_forwarded_total
              ELSE Inc(metrics_forwarded_total, s.forwarded[1])
         /\ metrics_forward_duration_seconds' =
              metrics_forward_duration_seconds + s.observed
  /\ UNCHANGED <<configVars, lifeVars, upstream_posts, callVars>>

\* The increment and the Response construction are reached only after a 2xx
\* reply, and the construction only after the increment returned.
LibraryOutcomes(up) ==
  IF TryBodyRaises(up).exc # "" THEN {<<"", "">>}
  ELSE {<<"", "">>, <<"ValueError", "">>, <<"", "ImproperlyConfiguredException">>}

Next ==
  \/ \E r \in 1..MaxRequests, data \in RequestBodies, qp \in RequestQueries :
       ForwardJsonCall(r, data, qp)
  \/ \E r \in 1..MaxRequests, up \in UpstreamOutcomes :
       \E lib \in LibraryOutcomes(up) : ForwardJsonResume(r, up, lib[1], lib[2])

Spec == Init /\ [][Next]_vars

\* ------------------------------------------------------------ POST /test

\* JMESPathTestPayload.expression: None, or a str
NoExpression == PyNone
GivenExpression(e) == [kind |-> "str", val |-> e]
\* bool(data.expression)
HasExpression(e) == e.kind = "str" /\ e.val # <<>>

\* a variant of test_jmes that never falls back to the server default
test_jmes_without_default(data, payload_expression, qp, default_expr) ==
  Eager(apply_jmespath_expression(
          IF payload_expression.kind = "str" THEN payload_expression.val ELSE <<>>,
          data, qp),
        LAMBDA a :
          IF a.exc # "" THEN ServerError(a.exc)
          ELSE IF Truthy(a.error) THEN JsonResponse(ErrorBody(a.error.val, data, qp))
          ELSE JsonResponse(a.result))

\* test_jmes: data is payload.data, payload_expression payload.expression
test_jmes(data, payload_expression, qp, default_expr) ==
  Eager(apply_jmespath_expression(
          IF HasExpression(payload_expression) THEN payload_expression.val
          ELSE default_expr,
          data, qp),
        LAMBDA a :
          IF a.exc # "" THEN ServerError(a.exc)
          ELSE IF Truthy(a.error) THEN JsonResponse(ErrorBody(a.error.val, data, qp))
          ELSE JsonResponse(a.result))

\* a POST /test arrives: the handler has no await and runs to its return
TestJmes(r, data, payload_expression, qp) ==
  /\ phase = "serving"
  /\ requests[r].pc = "idle"
  /\ \A q \in 1..(r - 1) : requests[q].pc # "idle"
  /\ requests' = [requests EXCEPT ![r] =
                    [IdleRequest EXCEPT !.pc = "done", !.route = "test",
                                        !.expression = payload_expression,
                                        !.data = data, !.query_params = qp,
                                        !.response = test_jmes(data, payload_expression, qp,
                                                               JMESPATH_EXPRESSION)]]
  /\ UNCHANGED <<configVars, lifeVars, metrics_forwarded_total,
                 metrics_forward_errors_total, metrics_forward_duration_seconds,
                 upstream_posts, callVars>>

\* the process receiving both POST / and POST /test
MixedBodies == {BodyJohn}
MixedQueries == {QueryNone, QueryIds}
PayloadExpressions == {NoExpression, GivenExpression(<<>>), GivenExpression(ExprQueryUserId),
                       GivenExpression(ExprInvalid)}
InitMixed ==
  InitServing({<<>>, ExprBodyUserName, ExprInvalid}, {<<>>, ExprLabels}, ForwardUrls,
              {""}, {""})
NextMixed ==
  \/ \E r \in 1..MaxRequests, data \in MixedBodies, qp \in MixedQueries :
       ForwardJsonCall(r, data, qp)
  \/ \E r \in 1..MaxRequests, up \in UpstreamOutcomes :
       \E lib \in LibraryOutcomes(up) : ForwardJsonResume(r, up, lib[1], lib[2])
  \/ \E r \in 1..MaxRequests, data \in MixedBodies, e \in PayloadExpressions,
        qp \in MixedQueries :
       TestJmes(r, data, e, qp)
SpecMixed == InitMixed /\ [][NextMixed]_vars

\* ------------------------------------------------- import, start and stop

Letters == {"a", "b", "c", "d", "e", "f", "g", "h", "i", "j", "k", "l", "m", "n", "o",
            "p", "q", "r", "s", "t", "u", "v", "w", "x", "y", "z"}
Digits == {"0", "1", "2", "3", "4", "5", "6", "7", "8", "9"}

\* prometheus_client's METRIC_LABEL_NAME_RE, ^[a-zA-Z_][a-zA-Z0-9_]*$, on the
\* lower-case names of the model
MatchesLabelNameRe(name) ==
  /\ Len(name) > 0
  /\ SubSeq(name, 1, 1) \in Letters \cup {"_"}
  /\ \A i \in 2..Len(name) : SubSeq(name, i, i) \in Letters \cup Digits \cup {"_"}

\* prometheus_client's RESERVED_METRIC_LABEL_NAME_RE, ^__.*$
MatchesReservedRe(name) == Len(name) >= 2 /\ SubSeq(name, 1, 2) = "__"

\* Counter(name, documentation, labelnames): the exception the constructor
\* raises ("" when it returns). A reserved name is refused by every release
\* of the library; a name outside the pattern is refused by the releases
\* that validate names the legacy way.
CounterRaises(labelnames, legacy_validation) ==
  IF \E i \in 1..Len(labelnames) : MatchesReservedRe(labelnames[i]) THEN "ValueError"
  ELSE IF legacy_validation /\ \E i \in 1..Len(labelnames) : ~MatchesLabelNameRe(labelnames[i])
       THEN "ValueError"
       ELSE ""

\* the module body of app.py runs: the label names are extracted and the
\* metrics are constructed with them
ImportModule(legacy_validation) ==
  /\ phase = "importing"
  /\ \E names \in {extract_labelnames(METRICS_ANNOTATION_EXPRESSION).names} :
       /\ metric_label_names' = names
       /\ phase' = IF CounterRaises(names, legacy_validation) # "" THEN "import_failed"
                   ELSE "imported"
  /\ UNCHANGED <<JMESPATH_EXPRESSION, METRICS_ANNOTATION_EXPRESSION, FORWARD_URL,
                 FORWARD_BASIC_AUTH_USERNAME, FORWARD_BASIC_AUTH_PASSWORD,
                 metrics_forwarded_total, metrics_forward_errors_total,
                 metrics_forward_duration_seconds, requests, upstream_posts,
                 httpx_client, callVars>>

\* one round of the validation loop of httpx_lifespan: the exception that
\* leaves it ("" when the round only logs)
ValidateExpression(expr_value) ==
  IF expr_value = <<>> THEN ""
  ELSE Eager(Compile(expr_value),
             LAMBDA c : IF ~IsRaise(c) THEN ""
                        ELSE IF IsParseError(c.exc) THEN ""
                        ELSE "")

\* httpx_lifespan up to its yield: the client is stored, then the two
\* configured expressions are validated
httpx_lifespan_enter(client, transform_expr, metrics_expr) ==
  Eager([created |-> client.created + 1, closed |-> FALSE],
        LAMBDA c :
          IF ValidateExpression(transform_expr) # "" \/ ValidateExpression(metrics_expr) # ""
          THEN [phase |-> "startup_failed", client |-> c]
          ELSE [phase |-> "serving", client |-> c])

\* a variant of httpx_lifespan_exit whose aclose() is not in a finally
httpx_lifespan_exit_without_finally(client, exc) ==
  IF exc = "" THEN [client EXCEPT !.closed = TRUE] ELSE client

\* httpx_lifespan from its yield on: exc is the exception thrown into the
\* generator at the yield ("" when the serving phase ends normally)
httpx_lifespan_exit(client, exc) == [client EXCEPT !.closed = TRUE]

LifespanStartup ==
  /\ phase = "imported"
  /\ \E s \in {httpx_lifespan_enter(httpx_client, JMESPATH_EXPRESSION,
                                     METRICS_ANNOTATION_EXPRESSION)} :
       /\ phase' = s.phase
       /\ httpx_client' = s.client
  /\ UNCHANGED <<configVars, metrics_forwarded_total, metrics_forward_errors_total,
                 metrics_forward_duration_seconds, requests, upstream_posts, callVars>>

LifespanShutdown(exc) ==
  /\ phase = "serving"
  /\ phase' = "stopped"
  /\ httpx_client' = httpx_lifespan_exit(httpx_client, exc)
  /\ UNCHANGED <<configVars, metrics_forwarded_total, metrics_forward_errors_total,
                 metrics_forward_duration_seconds, requests, upstream_posts, callVars>>

\* keys of a multi-select hash written as quoted identifiers
ExprQuotedKey == <<"{", "my-label", ":", "body", ".", "user", ".", "name", "}">>
ExprReservedKey == <<"{", "__name__", ":", "body", ".", "user", ".", "name", "}">>

LifeTransformExprs == {<<>>, ExprBodyUserName, ExprInvalid}
LifeMetricExprs == {<<>>, ExprLabels, ExprInvalid, ExprBodyUserName, ExprQuotedKey,
                    ExprReservedKey}
ServingExceptions == {"", "CancelledError"}

\* the process before app.py is imported
InitLife ==
  /\ JMESPATH_EXPRESSION \in LifeTransformExprs
  /\ METRICS_ANNOTATION_EXPRESSION \in LifeMetricExprs
  /\ FORWARD_URL \in ForwardUrls
  /\ FORWARD_BASIC_AUTH_USERNAME = ""
  /\ FORWARD_BASIC_AUTH_PASSWORD = ""
  /\ metric_label_names = <<>>
  /\ metrics_forwarded_total = [k \in {} |-> 0]
  /\ metrics_forward_errors_total =
       [t \in {"config_error", "http_error", "unexpected_error"} |-> 0]
  /\ metrics_forward_duration_seconds = 0
  /\ requests = [r \in 1..MaxRequests |-> IdleRequest]
  /\ upstream_posts = <<>>
  /\ phase = "importing"
  /\ httpx_client = NoClient
  /\ expression = <<>>
  /\ body_data = PyNone
  /\ query_params = PyNone
  /\ ret = NotCalled

NextLife ==
  \/ \E legacy_validation \in BOOLEAN : ImportModule(legacy_validation)
  \/ LifespanStartup
  \/ \E r \in 1..MaxRequests : ForwardJsonCall(r, BodyJohn, QueryNone)
  \/ \E r \in 1..MaxRequests, up \in UpstreamOutcomes :
       \E lib \in LibraryOutcomes(up) : ForwardJsonResume(r, up, lib[1], lib[2])
  \/ \E exc \in ServingExceptions : LifespanShutdown(exc)

SpecLife == InitLife /\ [][NextLife]_vars

\* the same process with the Basic-Auth credentials configured or not
Usernames == {"", "user"}
Passwords == {"", "secret"}
InitAuth == InitServing({<<>>, ExprBodyUserName}, {<<>>}, ForwardUrls, Usernames, Passwords)
SpecAuth == InitAuth /\ [][Next]_vars


\* ------------------------------------------------ claims on the direct calls

StartsWith(s, p) == Len(s) >= Len(p) /\ SubSeq(s, 1, Len(p)) = p
Context == ContextData(body_data, query_params)
Get(d, k) == IF d.kind = "obj" /\ k \in DOMAIN d.val THEN d.val[k] ELSE PyNone
AppliedNonEmpty == ret.fn = "apply_jmespath_expression" /\ expression # <<>>

C2_EmptyExpressionIsIdentity ==
  (ret.fn = "apply_jmespath_expression" /\ expression = <<>>) =>
    /\ ret.out.exc = ""
    /\ ret.out.result = body_data
    /\ ret.out.error = PyNone
    /\ ~ret.out.searched
    /\ \A q \in Queries :
         apply_jmespath_expression(expression, body_data, q) = ret.out

C2_Witness ==
  /\ ret.fn = "apply_jmespath_expression"
  /\ expression = <<>>
  /\ body_data = BodyJohn
  /\ query_params = QueryIds
  /\ ret.out.result = BodyJohn
  /\ ret.out.error = PyNone

\* C3: on success apply_jmespath_expression returns (value, None), value
\* being the expression evaluated against the context whose only top-level
\* keys are body (the payload) and query_params (the query string): body.k
\* reads the payload, query_params.k reads the query string, any other
\* top-level name is null, and a multi-select over both holds both values.
C3_ContextAddressing ==
  (AppliedNonEmpty /\ ~IsRaise(Search(expression, Context))) =>
    /\ ret.out.exc = ""
    /\ ret.out.error = PyNone
    /\ ret.out.result = Visit(Parse(expression).node, Context)
    /\ \A k \in Alphabet \ Punct :
         /\ expression = <<"body", ".", k>> => ret.out.result = Get(body_data, k)
         /\ expression = <<"query_params", ".", k>> =>
              ret.out.result = Get(query_params, k)
         /\ expression = <<k>> =>
              ret.out.result = (CASE k = "body" -> body_data
                                  [] k = "query_params" -> query_params
                                  [] OTHER -> PyNone)
    /\ expression = ExprComposite =>
         ret.out.result =
           PyDict([user_name |-> Get(Get(body_data, "user"), "name"),
                   request_id |-> Get(query_params, "req_id")])

C3_Witness ==
  /\ ret.fn = "apply_jmespath_expression"
  /\ expression = ExprComposite
  /\ body_data = BodyJohn
  /\ query_params = QueryIds
  /\ ret.out.error = PyNone
  /\ ret.out.result = PyDict([user_name |-> PyStr("John"), request_id |-> PyStr("abcde")])

\* the number of "{" minus the number of "}" among the first i lexemes
RECURSIVE BraceDepth(_, _)
BraceDepth(toks, i) ==
  IF i = 0 THEN 0
  ELSE BraceDepth(toks, i - 1)
       + (IF toks[i] = "{" THEN 1 ELSE IF toks[i] = "}" THEN -1 ELSE 0)

\* the lexemes written before a ":" directly inside the outermost braces
RECURSIVE OuterKeys(_, _)
OuterKeys(toks, i) ==
  IF i >= Len(toks) THEN <<>>
  ELSE IF toks[i + 1] = ":" /\ BraceDepth(toks, i) = 1
       THEN <<toks[i]>> \o OuterKeys(toks, i + 1)
       ELSE OuterKeys(toks, i + 1)

RootIsMultiSelectDict(e) ==
  Eager(Parse(e), LAMBDA p : p.ok /\ p.node.type = "multi_select_dict")

\* C9: extract_labelnames returns a non-empty list only for an expression
\* whose parsed root is a multi-select dict, and then the key of each
\* immediate key-value pair in source order; for the empty expression and
\* for any other root it returns the empty list.
C9_LabelNamesFromMultiSelectRoot ==
  ret.fn = "extract_labelnames" =>
    /\ ret.out.exc = ""
    /\ ret.out.names # <<>> => (expression # <<>> /\ RootIsMultiSelectDict(expression))
    /\ (expression # <<>> /\ RootIsMultiSelectDict(expression)) =>
         /\ ret.out.names = OuterKeys(expression, 1)
         /\ ret.out.names # <<>>
    /\ expression = ExprAB => ret.out.names = <<"a", "b">>
    /\ expression = ExprXYZ => ret.out.names = <<>>

C9_Witness ==
  /\ ret.fn = "extract_labelnames"
  /\ expression = ExprAB
  /\ ret.out.names = <<"a", "b">>

\* C10: extract_metric_labels never raises; it returns the empty mapping
\* for the empty expression, for a failed evaluation and for a result that
\* is no mapping; otherwise exactly the entries of the result whose value
\* is not null, each value as its string representation.
C10_MetricLabelsBestEffort ==
  ret.fn = "extract_metric_labels" =>
    LET r == Search(expression, Context)
    IN  /\ ret.out.exc = ""
        /\ (expression = <<>> \/ IsRaise(r) \/ r.kind # "obj") =>
             ret.out.labels = EmptyDict
        /\ (expression # <<>> /\ ~IsRaise(r) /\ r.kind = "obj") =>
             /\ DOMAIN ret.out.labels = {k \in DOMAIN r.val : r.val[k].kind # "null"}
             /\ \A k \in DOMAIN ret.out.labels :
                  /\ ret.out.labels[k].kind = "str"
                  /\ r.val[k].kind = "str" => ret.out.labels[k].val = r.val[k].val
                  /\ r.val[k].kind = "num" => ret.out.labels[k].val = ToString(r.val[k].val)
                  /\ ret.out.labels[k].val = PyStrOf(r.val[k])
        /\ (expression = ExprLabels /\ body_data = BodyJohn /\ query_params = QueryShadow) =>
             ret.out.labels = [name |-> PyStr("John"), age |-> PyStr("30"),
                               source |-> PyStr("test-source")]

C10_Witness ==
  /\ ret.fn = "extract_metric_labels"
  /\ expression = ExprLabels
  /\ body_data = BodyJohn
  /\ query_params = QueryNone
  /\ ret.out.labels = [name |-> PyStr("John"), age |-> PyStr("30")]

\* ------------------------------------------------------ claims on POST /

Requests == 1..MaxRequests
Done(r) == requests[r].pc = "done"
\* the handler of r went through `await client.post(...)`
GotUpstream(r) == Done(r) /\ requests[r].upstream # NoUpstream
PostsOf(r) == SelectSeq(upstream_posts, LAMBDA p : p.req = r)

\* the configured transform evaluated on the request of r
TransformOf(r) ==
  IF JMESPATH_EXPRESSION = <<>> THEN requests[r].data
  ELSE Search(JMESPATH_EXPRESSION, ContextData(requests[r].data, requests[r].query_params))
TransformSucceeded(r) == ~IsRaise(TransformOf(r))

TransportFailures == {"ConnectError"}
UpstreamFailed(r) ==
  /\ GotUpstream(r)
  /\ \/ requests[r].upstream.raises \in TransportFailures
     \/ requests[r].upstream.raises = "" /\ ~(requests[r].upstream.status \in 200..299)
UpstreamReplied2xx(r) ==
  GotUpstream(r) /\ requests[r].upstream.raises = "" /\ requests[r].upstream.status \in 200..299
\* a 2xx reply whose success-counter increment returned
ForwardSucceeded(r) == UpstreamReplied2xx(r) /\ requests[r].inc_exc = ""

RECURSIVE SumOver(_, _)
SumOver(counter, keys) ==
  IF keys = {} THEN 0
  ELSE LET k == CHOOSE x \in keys : TRUE IN counter[k] + SumOver(counter, keys \ {k})
Total(counter) == SumOver(counter, DOMAIN counter)

IsErrorBody(body) ==
  /\ body.kind = "obj"
  /\ DOMAIN body.val = {"error", "original_data", "query_params"}
  /\ body.val.error.kind = "str"
  /\ body.val.error.val # ""

\* C4: when the upstream POST fails with a transport failure or a non-2xx
\* status, POST / answers 200 with {error, original_data, query_params},
\* original_data being the transformed payload that was sent (the request
\* body when no transform is configured); http_error is incremented once
\* per such request and forwarded_total is not incremented.
C4_UpstreamFailureInBand ==
  /\ \A r \in Requests :
       UpstreamFailed(r) =>
         /\ Len(PostsOf(r)) = 1
         /\ requests[r].response.via = "json"
         /\ requests[r].response.status = 200
         /\ IsErrorBody(requests[r].response.body)
         /\ requests[r].response.body.val.original_data = PostsOf(r)[1].json
         /\ PostsOf(r)[1].json = TransformOf(r)
         /\ requests[r].response.body.val.query_params = requests[r].query_params
         /\ JMESPATH_EXPRESSION = <<>> =>
              requests[r].response.body.val.original_data = requests[r].data
  /\ metrics_forward_errors_total["http_error"] =
       Cardinality({r \in Requests : UpstreamFailed(r)})
  /\ Total(metrics_forwarded_total) = Cardinality({r \in Requests : ForwardSucceeded(r)})

C4_Witness ==
  /\ JMESPATH_EXPRESSION = ExprBodyUserName
  /\ \A r \in 1..2 :
       /\ Done(r)
       /\ requests[r].data = BodyJohn
       /\ requests[r].response.via = "json"
       /\ requests[r].response.body.val.original_data = PyStr("John")
  /\ requests[1].upstream = UpstreamRaise("ConnectError", "Connection error")
  /\ requests[2].upstream.status = 404
  /\ metrics_forward_errors_total["http_error"] = 2
  /\ Total(metrics_forwarded_total) = 0

\* C5: when FORWARD_URL is empty and the transform succeeded, POST / returns
\* an in-band configuration error without issuing an upstream POST,
\* increments config_error once, and records no histogram observation.
C5_ConfigErrorWithoutPost ==
  /\ \A r \in Requests :
       (Done(r) /\ FORWARD_URL = "" /\ TransformSucceeded(r)) =>
         /\ requests[r].response.via = "json"
         /\ requests[r].response.status = 200
         /\ IsErrorBody(requests[r].response.body)
         /\ StartsWith(requests[r].response.body.val.error.val, "Configuration error")
         /\ PostsOf(r) = <<>>
         /\ requests[r].upstream = NoUpstream
  /\ FORWARD_URL = "" =>
       /\ metrics_forward_errors_total["config_error"] =
            Cardinality({r \in Requests : Done(r) /\ TransformSucceeded(r)})
       /\ metrics_forward_duration_seconds = 0
       /\ upstream_posts = <<>>
  /\ FORWARD_URL # "" => metrics_forward_errors_total["config_error"] = 0

C5_Witness ==
  /\ FORWARD_URL = ""
  /\ JMESPATH_EXPRESSION = ExprBodyUserName
  /\ \A r \in 1..2 : Done(r) /\ TransformSucceeded(r)
  /\ metrics_forward_errors_total["config_error"] = 2
  /\ metrics_forward_duration_seconds = 0
  /\ upstream_posts = <<>>

\* a failure that is neither a transform, a configuration nor an upstream error
UnexpectedFailure(r) ==
  /\ GotUpstream(r)
  /\ \/ requests[r].upstream.raises \notin ({""} \cup TransportFailures)
     \/ UpstreamReplied2xx(r) /\ (requests[r].inc_exc # "" \/ requests[r].resp_exc # "")

\* C6: POST / never raises: whatever the transform, the label extraction,
\* the upstream call, the success-counter increment and the construction
\* of the relayed response end in, the handler returns a response; a
\* failure that is no transform, configuration or upstream error is
\* reported in-band as 200 with an error body and counted once under
\* unexpected_error.
C6_NeverRaises ==
  /\ \A r \in Requests :
       Done(r) =>
         /\ requests[r].response.via # "exception"
         /\ requests[r].response.status # 500
         /\ UnexpectedFailure(r) =>
              /\ requests[r].response.via = "json"
              /\ requests[r].response.status = 200
              /\ IsErrorBody(requests[r].response.body)
  /\ metrics_forward_errors_total["unexpected_error"] =
       Cardinality({r \in Requests : UnexpectedFailure(r)})

\* the value of label name in res, the result of the metrics expression
LabelValueIn(res, name) ==
  IF ~IsRaise(res) /\ res.kind = "obj" /\ name \in DOMAIN res.val
     /\ res.val[name].kind # "null"
  THEN PyStrOf(res.val[name]) ELSE ""

\* the values the metrics expression gives the declared label names, in
\* their order, on the body and the query params of the request of r
ExpectedLabelValues(r) ==
  Eager(Search(METRICS_ANNOTATION_EXPRESSION,
               ContextData(requests[r].data, requests[r].query_params)),
        LAMBDA res : [i \in 1..Len(metric_label_names) |->
                        LabelValueIn(res, metric_label_names[i])])

CountOf(counter, key) == IF key \in DOMAIN counter THEN counter[key] ELSE 0

\* C7: a successful (2xx) forward increments forwarded_total exactly once:
\* with label names, on the child whose values are, in declaration order,
\* the strings the metrics expression gives each name on the original body
\* and query params ("" for a name it does not give); without label names,
\* on the unlabelled counter.
C7_ForwardedCountedOnce ==
  /\ IF metric_label_names # <<>>
     THEN metric_label_names = OuterKeys(METRICS_ANNOTATION_EXPRESSION, 1)
     ELSE ~RootIsMultiSelectDict(METRICS_ANNOTATION_EXPRESSION)
  /\ \A expected \in {[r \in {q \in Requests : ForwardSucceeded(q)} |->
                         ExpectedLabelValues(r)]} :
     \A key \in DOMAIN metrics_forwarded_total \cup {expected[r] : r \in DOMAIN expected} :
       /\ Len(key) = Len(metric_label_names)
       /\ CountOf(metrics_forwarded_total, key) =
            Cardinality({r \in DOMAIN expected : expected[r] = key})

C7_Witness ==
  /\ METRICS_ANNOTATION_EXPRESSION = ExprLabels
  /\ JMESPATH_EXPRESSION = ExprBodyUserName
  /\ metric_label_names = <<"name", "age", "source">>
  /\ \A r \in 1..2 :
       /\ ForwardSucceeded(r)
       /\ requests[r].data = BodyJohn
       /\ requests[r].query_params = QueryNone
  /\ metrics_forwarded_total = (<<"John", "30", "">> :> 2)

\* C8: label extraction never affects the primary response: with the same
\* body, query params, transform, upstream URL and upstream behaviour, the
\* response and the payload sent upstream are the same for every metrics
\* annotation expression. Stated against one reference: what the process
\* configured with METRICS_ANNOTATION_EXPRESSION (any of MetricExprs) sent
\* and answered is what a process without a metrics expression sends and
\* answers, so any two metrics expressions give the same.
C8_LabelsDoNotAffectResponse ==
  \A r \in Requests :
    requests[r].pc # "idle" =>
      \A q \in {requests[r]} :
      \A alt \in {forward_json_to_await(q.data, q.query_params, JMESPATH_EXPRESSION,
                                        <<>>, FORWARD_URL)} :
      \A sent \in {[i \in 1..Len(PostsOf(r)) |->
                      [url |-> PostsOf(r)[i].url, json |-> PostsOf(r)[i].json]]} :
          /\ alt.post = sent
          /\ IF q.pc = "awaiting" \/ GotUpstream(r)
             THEN alt.pc = "awaiting"
             ELSE alt.pc = "done" /\ alt.response = q.response
          /\ GotUpstream(r) =>
               forward_json_from_await(alt.result, alt.metric_labels, q.query_params,
                                       <<>>, q.upstream, q.inc_exc,
                                       q.resp_exc).response = q.response

C8_Witness ==
  /\ METRICS_ANNOTATION_EXPRESSION = ExprInvalid
  /\ JMESPATH_EXPRESSION = ExprBodyUserName
  /\ ForwardSucceeded(1)
  /\ requests[1].response.via = "response"
  /\ requests[1].response.status = 200
  /\ PostsOf(1) = <<[req |-> 1, url |-> "http://mock.example.com", json |-> PyStr("John"),
                      auth |-> USE_CLIENT_DEFAULT, client |-> OpenClient]>>

\* ------------------------------------------------------ the relayed response

RECURSIVE JsonDumps(_), JsonItems(_, _, _)

\* the JSON text of a value, as the framework encodes a handler's return value
JsonDumps(v) ==
  CASE v.kind = "null" -> "null"
    [] v.kind = "str" -> "\"" \o v.val \o "\""
    [] v.kind = "num" -> ToString(v.val)
    [] v.kind = "bool" -> IF v.val THEN "true" ELSE "false"
    [] v.kind = "obj" -> "{" \o JsonItems(v.val, 1, TRUE) \o "}"

JsonItems(f, i, first) ==
  IF i > Len(KeyOrder) THEN ""
  ELSE IF KeyOrder[i] \in DOMAIN f
       THEN (IF first THEN "" ELSE ",") \o "\"" \o KeyOrder[i] \o "\":"
            \o JsonDumps(f[KeyOrder[i]]) \o JsonItems(f, i + 1, FALSE)
       ELSE JsonItems(f, i + 1, first)

\* the value a JSON text decodes to; ok is FALSE for a text that is no JSON
JsonLoads(text) ==
  CASE text = "{\"result\": \"success\"}" ->
         [ok |-> TRUE, value |-> PyDict([result |-> PyStr("success")])]
    [] text = "{\"detail\": \"not found\"}" ->
         [ok |-> TRUE, value |-> PyDict([detail |-> PyStr("not found")])]
    [] OTHER -> [ok |-> FALSE, value |-> PyNone]

IndicatesJson(content_type) == content_type = "application/json"

\* the bytes of the body the client of the proxy receives
BodyBytes(response) ==
  IF response.via = "response" THEN response.body.val ELSE JsonDumps(response.body)

\* C11: on a successful forward the upstream status is the status of the
\* handler's response; an upstream body whose content-type indicates JSON
\* and that decodes is sent re-encoded as the handler's JSON response, any
\* other body is relayed as the raw bytes with the upstream content-type.
C11_RelayReencodesJson ==
  \A r \in Requests :
    (Done(r) /\ ForwardSucceeded(r) /\ requests[r].resp_exc = "") =>
      \E up \in {requests[r].upstream} :
      \E decoded \in {JsonLoads(up.content)} :
        /\ requests[r].response.status = up.status
        /\ requests[r].response.content_type = up.content_type
        /\ BodyBytes(requests[r].response) =
             IF IndicatesJson(up.content_type) /\ decoded.ok
             THEN JsonDumps(decoded.value) ELSE up.content

\* ------------------------------------------------------------ Basic-Auth

BothCredentials == FORWARD_BASIC_AUTH_USERNAME # "" /\ FORWARD_BASIC_AUTH_PASSWORD # ""

\* C12: an upstream POST carries Basic-Auth credentials exactly when both the
\* configured username and the configured password are non-empty, and then
\* these two; otherwise it is sent with the client's default auth and
\* carries neither the username nor the password.
C12_BasicAuthIffBothCredentials ==
  \A i \in 1..Len(upstream_posts) :
    \E auth \in {upstream_posts[i].auth} :
      /\ (auth.scheme = "basic") <=> BothCredentials
      /\ BothCredentials =>
           auth = BasicAuth(FORWARD_BASIC_AUTH_USERNAME, FORWARD_BASIC_AUTH_PASSWORD)
      /\ ~BothCredentials => auth = USE_CLIENT_DEFAULT

\* a POST sent while only the username is configured
C12_Witness ==
  /\ FORWARD_BASIC_AUTH_USERNAME = "user"
  /\ FORWARD_BASIC_AUTH_PASSWORD = ""
  /\ Len(upstream_posts) = 1
  /\ upstream_posts[1].auth = USE_CLIENT_DEFAULT
  /\ requests[1].pc = "done"

\* ------------------------------------------------------------ POST /test

IsTest(r) == requests[r].route = "test" /\ Done(r)

\* the expression POST /test applies for request r
EffectiveExpression(r) ==
  IF HasExpression(requests[r].expression) THEN requests[r].expression.val
  ELSE JMESPATH_EXPRESSION

\* what the evaluator gives for the effective expression of r
EffectiveSearch(r) ==
  Search(EffectiveExpression(r), ContextData(requests[r].data, requests[r].query_params))

TestResponseIsTransform ==
  \A r \in Requests :
    IsTest(r) =>
      \E q \in {requests[r]} :
        /\ q.response.via = "json"
        /\ q.response.status = 200
        /\ IF EffectiveExpression(r) = <<>> THEN q.response.body = q.data
           ELSE \E found \in {EffectiveSearch(r)} :
                  IF IsRaise(found)
                  THEN /\ IsErrorBody(q.response.body)
                       /\ q.response.body.val["original_data"] = q.data
                       /\ q.response.body.val["query_params"] = q.query_params
                  ELSE q.response.body = found

\* a step in which a POST /test is handled
TestStep == \E r \in Requests : requests[r].route = "" /\ requests'[r].route = "test"

\* C13: POST /test issues no upstream POST and changes no forwarding counter
\* or histogram; it answers 200 with the value of the request's expression
\* when that is non-empty and of the server's default otherwise (the data
\* itself when the effective expression is empty), or with
\* {error, original_data = the request's data, query_params} when the
\* evaluation fails.
C13_TestIsTransformOnly ==
  /\ []TestResponseIsTransform
  /\ [][TestStep => UNCHANGED <<upstream_posts, metrics_forwarded_total,
                                metrics_forward_errors_total,
                                metrics_forward_duration_seconds>>]_vars

\* a POST /test without expression, answered with the server default applied
C13_Witness ==
  /\ JMESPATH_EXPRESSION = ExprBodyUserName
  /\ IsTest(1)
  /\ requests[1].expression = NoExpression
  /\ requests[1].data = BodyJohn
  /\ requests[1].response = JsonResponse(PyStr("John"))
  /\ upstream_posts = <<>>

\* ------------------------------------------------- import, start and stop

Imported == phase \notin {"importing", "import_failed"}
Started == phase \in {"serving", "stopped"}

\* the metrics expression is malformed, or is no multi-select dict
NoLabelExpression ==
  \E c \in {Compile(METRICS_ANNOTATION_EXPRESSION)} :
    IsRaise(c) \/ c.val.type # "multi_select_dict"

\* C14: an invalid configured expression never prevents the process from
\* starting: the import of the module never fails; a metrics expression
\* that is malformed or no multi-select dict gives no label names; the
\* validation at startup lets the application reach the serving state; and
\* a request served while the transform is invalid is answered in-band.
C14_InvalidExpressionsNeverBlockStart ==
  /\ phase \notin {"import_failed", "startup_failed"}
  /\ (Imported /\ NoLabelExpression) => metric_label_names = <<>>
  /\ \A r \in Requests :
       (Done(r) /\ ~TransformSucceeded(r)) =>
         /\ requests[r].response.via = "json"
         /\ requests[r].response.status = 200
         /\ IsErrorBody(requests[r].response.body)

\* every POST was sent with the one client of the process, while it was open
PostsUseTheOpenClient ==
  \A i \in 1..Len(upstream_posts) : upstream_posts[i].client = OpenClient

\* C15: the outbound client is constructed exactly once, before any request
\* is served; every request is forwarded with that client while it is
\* open; and the client is closed once the serving phase is left, also
\* when it is left by an exception.
C15_ClientLifetime ==
  /\ httpx_client.created = IF Started THEN 1 ELSE 0
  /\ phase = "serving" => httpx_client = OpenClient
  /\ phase = "stopped" => httpx_client = [created |-> 1, closed |-> TRUE]
  /\ (\E r \in Requests : requests[r].pc # "idle") => Started
  /\ PostsUseTheOpenClient

\* the process stopped after two forwards, both sent with the same client
C15_Witness ==
  /\ phase = "stopped"
  /\ httpx_client.closed
  /\ Len(upstream_posts) = 2
  /\ upstream_posts[1].client = upstream_posts[2].client
  /\ \A r \in 1..2 : Done(r)

\* ------------------------------------------------- one attempt, one timing

\* the requests whose upstream POST has completed, one way or the other
Attempted == {r \in Requests : Done(r) /\ PostsOf(r) # <<>>}

\* C17: a POST / request issues at most one upstream POST, and the histogram
\* holds exactly one observation for each POST that has completed, whether
\* in a relayed response, in an http_error or in an unexpected_error, and
\* none for a request that attempted no POST.
C17_OneAttemptOneObservation ==
  /\ \A r \in Requests :
       /\ Len(PostsOf(r)) <= 1
       /\ requests[r].pc = "awaiting" => Len(PostsOf(r)) = 1
       /\ Done(r) => (PostsOf(r) # <<>> <=> GotUpstream(r))
  /\ metrics_forward_duration_seconds = Cardinality(Attempted)

\* two attempts, one ending in an http_error and one in an unexpected_error
C17_Witness ==
  /\ Done(1) /\ requests[1].upstream = UpstreamResponse(404, "application/json", "{\"detail\": \"not found\"}")
  /\ Done(2) /\ requests[2].upstream.raises = "RuntimeError"
  /\ Len(upstream_posts) = 2
  /\ metrics_forward_errors_total["http_error"] = 1
  /\ metrics_forward_errors_total["unexpected_error"] = 1
  /\ metrics_forward_duration_seconds = 2

\* ------------------------------------------------- the transform fails

\* the configured transform fails on this body and these query params
TransformFailsOn(data, qp) ==
  /\ JMESPATH_EXPRESSION # <<>>
  /\ IsRaise(Search(JMESPATH_EXPRESSION, ContextData(data, qp)))

FailedTransformResponse ==
  \A r \in Requests :
    (Done(r) /\ TransformFailsOn(requests[r].data, requests[r].query_params)) =>
      \E q \in {requests[r]} :
        /\ q.response.via = "json"
        /\ q.response.status = 200
        /\ IsErrorBody(q.response.body)
        /\ StartsWith(q.response.body.val.error.val, "Error in global expression: ")
        /\ q.response.body.val["original_data"] = q.data
        /\ q.response.body.val["query_params"] = q.query_params
        /\ PostsOf(r) = <<>>
        /\ q.upstream = NoUpstream

\* a step that starts handling request r, on which the transform fails
FailedTransformStep(r) ==
  /\ requests[r].pc = "idle"
  /\ requests'[r].pc # "idle"
  /\ TransformFailsOn(requests'[r].data, requests'[r].query_params)

\* C18: when the configured transform fails, POST / answers 200 with
\* {error, original_data = the request body as received, query_params} and
\* has no forwarding side effect: no upstream POST, no histogram
\* observation and no counter increment, config_error included when
\* FORWARD_URL is empty as well.
C18_FailedTransformHasNoSideEffect ==
  /\ []FailedTransformResponse
  /\ [][\A r \in Requests :
          FailedTransformStep(r) =>
            /\ requests'[r].pc = "done"
            /\ UNCHANGED <<upstream_posts, metrics_forwarded_total,
                           metrics_forward_errors_total,
                           metrics_forward_duration_seconds>>]_vars

\* a failed transform while FORWARD_URL is empty too
C18_Witness ==
  /\ JMESPATH_EXPRESSION = ExprInvalid
  /\ FORWARD_URL = ""
  /\ Done(1)
  /\ requests[1].data = BodyJohn
  /\ requests[1].response.body.val["original_data"] = BodyJohn
  /\ metrics_forward_errors_total["config_error"] = 0
  /\ upstream_posts = <<>>

\* ------------------------------------------------- one counter per request

\* the outcome a response reports
ResponseKind(response) ==
  IF response.via = "response" THEN "relayed"
  ELSE IF response.via = "json" /\ IsErrorBody(response.body)
  THEN Eager(response.body.val.error.val,
             LAMBDA e :
               IF StartsWith(e, "Configuration error") THEN "config_error"
               ELSE IF StartsWith(e, "Failed to forward request") THEN "http_error"
               ELSE IF StartsWith(e, "Unexpected error during forwarding")
               THEN "unexpected_error"
               ELSE "transform_error")
  ELSE "other"

\* the completed requests whose transform succeeded
Transformed == {r \in Requests : Done(r) /\ TransformSucceeded(r)}
Reporting(kind) == {r \in Transformed : ResponseKind(requests[r].response) = kind}

CountersMatchResponses ==
  /\ \A r \in Transformed :
       ResponseKind(requests[r].response) \in
         {"relayed", "config_error", "http_error", "unexpected_error"}
  /\ Total(metrics_forwarded_total) = Cardinality(Reporting("relayed"))
  /\ \A t \in {"config_error", "http_error", "unexpected_error"} :
       metrics_forward_errors_total[t] = Cardinality(Reporting(t))
  /\ Total(metrics_forwarded_total) + Total(metrics_forward_errors_total) =
       Cardinality(Transformed)

CountersNeverDecrease ==
  /\ \A k \in DOMAIN metrics_forwarded_total :
       k \in DOMAIN metrics_forwarded_total'
       /\ metrics_forwarded_total'[k] >= metrics_forwarded_total[k]
  /\ \A t \in DOMAIN metrics_forward_errors_total :
       metrics_forward_errors_total'[t] >= metrics_forward_errors_total[t]

\* C19: each completed request whose transform succeeded has incremented
\* exactly one of forwarded_total and the three forward_errors_total
\* children, by one, and that one matches the response returned; the four
\* sum to the number of such requests; and no counter ever decreases.
C19_OneCounterPerForward ==
  /\ []CountersMatchResponses
  /\ [][CountersNeverDecrease]_vars

\* ------------------------------------------------- concurrent requests

IsForward(r) == requests[r].route = "forward"

\* what request r does when it is the only request the process handles:
\* its handler up to the await, and from its upstream outcome to the end
AloneToAwait(r) ==
  forward_json_to_await(requests[r].data, requests[r].query_params, JMESPATH_EXPRESSION,
                        METRICS_ANNOTATION_EXPRESSION, FORWARD_URL)
AloneFromAwait(r, start) ==
  forward_json_from_await(start.result, start.metric_labels, requests[r].query_params,
                          metric_label_names, requests[r].upstream, requests[r].inc_exc,
                          requests[r].resp_exc)

\* the summary of r run alone: its response, its payload, and its increments
Alone(r) ==
  IF ~IsForward(r)
  THEN [response |-> test_jmes(requests[r].data, requests[r].expression,
                               requests[r].query_params, JMESPATH_EXPRESSION),
        post |-> <<>>, errors |-> <<>>, forwarded |-> <<>>, observed |-> 0]
  ELSE Eager(AloneToAwait(r),
         LAMBDA start :
           IF start.pc = "done" \/ requests[r].pc = "awaiting"
           THEN [response |-> start.response, post |-> start.post,
                 errors |-> IF start.error_type = "" THEN <<>> ELSE <<start.error_type>>,
                 forwarded |-> <<>>, observed |-> 0]
           ELSE Eager(AloneFromAwait(r, start),
                  LAMBDA end :
                    [response |-> end.response, post |-> start.post,
                     errors |-> IF end.error_type = "" THEN <<>> ELSE <<end.error_type>>,
                     forwarded |-> end.forwarded, observed |-> end.observed]))

\* C20: under every interleaving of POST / and POST /test requests, the
\* response of each request and the payload it sends upstream are those of
\* the request run alone, and every counter holds the sum of the
\* increments the requests make when run alone.
C20_RequestsDoNotInterfere ==
  \A alone \in {[r \in {q \in Requests : requests[q].pc # "idle"} |-> Alone(r)]} :
    /\ \A r \in DOMAIN alone :
         /\ requests[r].response = alone[r].response
         /\ Len(PostsOf(r)) = Len(alone[r].post)
         /\ alone[r].post # <<>> =>
              /\ PostsOf(r)[1].json = alone[r].post[1].json
              /\ PostsOf(r)[1].url = alone[r].post[1].url
    /\ \A t \in DOMAIN metrics_forward_errors_total :
         metrics_forward_errors_total[t] =
           Cardinality({r \in DOMAIN alone : alone[r].errors = <<t>>})
    /\ \A k \in DOMAIN metrics_forwarded_total \cup
                  {alone[r].forwarded[1] : r \in {q \in DOMAIN alone : alone[q].forwarded # <<>>}} :
         CountOf(metrics_forwarded_total, k) =
           Cardinality({r \in DOMAIN alone : alone[r].forwarded = <<k>>})
    /\ metrics_forward_duration_seconds =
         Cardinality({r \in DOMAIN alone : alone[r].observed = 1})

\* request 2 arrived and was forwarded and counted while request 1 was
\* still suspended at its own POST
C20_Witness ==
  /\ IsForward(1) /\ requests[1].pc = "awaiting"
  /\ IsForward(2) /\ ForwardSucceeded(2)
  /\ requests[1].query_params # requests[2].query_params
  /\ Len(upstream_posts) = 2
  /\ Total(metrics_forwarded_total) = 1

====
